---- MODULE Spec2Model ----
(***************************************************************************)
(* Model of strace_parser/json_transformer.py: the lark Transformer that   *)
(* turns a parsed strace log into JSON-compatible records, and the C       *)
(* string decoder it uses.                                                 *)
(*                                                                         *)
(* Python values are tagged records: [kind |-> "str", v |-> text],         *)
(* [kind |-> "list", v |-> sequence], [kind |-> "dict", v |-> function     *)
(* from keys to values], None, and Tree for a node no callback converted.  *)
(* Text is a TLA+ string; the decoder, which computes with character       *)
(* codes, works on sequences of code points.                               *)
(***************************************************************************)
EXTENDS Integers, Sequences, FiniteSets, TLC

VARIABLES
    lines,      \* the input tree: the line nodes under start, in order
    idx,        \* position of the line node being transformed
    cur,        \* the converted body of line idx
    children,   \* converted lines collected so far for start
    output,     \* what to_json returned
    pc,         \* "body" | "line" | "start" | "done" | "raised"
    ds,         \* decoder: the text given to _decode_c_string
    d1,         \* decoder: _decode_c_string(ds)
    d2,         \* decoder: _decode_c_string(d1)
    dpc,        \* decoder: "in" | "once" | "twice"
    tparts,     \* resumed tag: the pieces the tag text was written from
    rch,        \* resumed tag: children given to resumed_line
    rout,       \* resumed tag: the record resumed_line returned
    rpc,        \* resumed tag: "in" | "done"
    bnodes,     \* struct: the field nodes under struct_fields, in order
    bout,       \* struct: the value braced returned
    bpc         \* struct: "in" | "done"

mainVars == <<lines, idx, cur, children, output, pc>>
decVars == <<ds, d1, d2, dpc>>
tagVars == <<tparts, rch, rout, rpc>>
bracedVars == <<bnodes, bout, bpc>>
vars == <<lines, idx, cur, children, output, pc, ds, d1, d2, dpc,
          tparts, rch, rout, rpc, bnodes, bout, bpc>>

(***************************************************************************)
(* Bounds of the model.                                                    *)
(***************************************************************************)
MaxLines == 2
MaxArgs == 2
MaxStrLen == 4
MaxSpaces == 2
MaxFields == 3

(***************************************************************************)
(* Python values.                                                          *)
(***************************************************************************)
None == [kind |-> "None"]
Tree == [kind |-> "Tree"]
Str(s) == [kind |-> "str", v |-> s]
Num(n) == [kind |-> "num", v |-> n]
List(xs) == [kind |-> "list", v |-> xs]
Dict(f) == [kind |-> "dict", v |-> f]
Raised(e) == [kind |-> "raise", v |-> e]

IsList(x) == x.kind = "list"
IsDict(x) == x.kind = "dict"
IsNone(x) == x.kind = "None"

\* d[k] = v on a Python dict
Put(d, k, v) == [x \in (DOMAIN d) \cup {k} |-> IF x = k THEN v ELSE d[x]]
\* d.get(k)
Get(d, k) == IF k \in DOMAIN d THEN d[k] ELSE None

(***************************************************************************)
(* Syscall core.                                                           *)
(***************************************************************************)
\* a faulty variant, for comparison: the result is taken from the last child (children[-1])
syscall_last(ch) ==
    LET second == Len(ch) >= 2 /\ IsList(ch[2])
    IN  Dict([type |-> Str("syscall"), status |-> Str("finished"),
              name |-> ch[1],
              args |-> IF second THEN ch[2] ELSE List(<<>>),
              result |-> IF Len(ch) > 1 /\ ~IsList(ch[Len(ch)])
                         THEN ch[Len(ch)] ELSE None])

syscall(ch) ==
    LET name == ch[1]
        second == Len(ch) >= 2 /\ IsList(ch[2])
        args == IF second THEN ch[2] ELSE List(<<>>)
        result == IF second
                  THEN (IF Len(ch) > 2 THEN ch[3] ELSE None)
                  ELSE (IF Len(ch) > 1 THEN ch[2] ELSE None)
    IN  Dict([type |-> Str("syscall"), status |-> Str("finished"),
              name |-> name, args |-> args, result |-> result])

syscall_args(ch) == List(ch)

unfinished_syscall(ch) ==
    Dict([name |-> ch[1],
          args |-> IF Len(ch) > 1 THEN ch[2] ELSE List(<<>>)])

unfinished_line(ch) ==
    LET call == ch[1]
    IN  Dict([type |-> Str("syscall"), status |-> Str("unfinished"),
              name |-> call.v.name, args |-> call.v.args, result |-> None])

(***************************************************************************)
(* _RESUMED_RE = <\.\.\.\s+([a-zA-Z0-9_]+)\s+resumed>, used with match():  *)
(* anchored at the start of the text, not at its end.  The three repeated  *)
(* classes are followed by a character outside the class, so the          *)
(* backtracking matcher succeeds exactly when the longest runs do.         *)
(***************************************************************************)
At(s, i) == SubSeq(s, i, i)

IsSpace(c) == c \in {" ", "\t", "\n", "\r", "\f"}

IsWord(c) ==
    c \in {"a", "b", "c", "d", "e", "f", "g", "h", "i", "j", "k", "l", "m",
           "n", "o", "p", "q", "r", "s", "t", "u", "v", "w", "x", "y", "z",
           "A", "B", "C", "D", "E", "F", "G", "H", "I", "J", "K", "L", "M",
           "N", "O", "P", "Q", "R", "S", "T", "U", "V", "W", "X", "Y", "Z",
           "0", "1", "2", "3", "4", "5", "6", "7", "8", "9", "_"}

RECURSIVE SpanSpace(_, _)
\* index of the first character at or after i that is not whitespace
SpanSpace(s, i) ==
    IF i <= Len(s) /\ IsSpace(At(s, i)) THEN SpanSpace(s, i + 1) ELSE i

RECURSIVE SpanWord(_, _)
\* index of the first character at or after i that is not in [a-zA-Z0-9_]
SpanWord(s, i) ==
    IF i <= Len(s) /\ IsWord(At(s, i)) THEN SpanWord(s, i + 1) ELSE i

\* s has the literal lit at index i
Literal(s, i, lit) ==
    /\ i + Len(lit) - 1 <= Len(s)
    /\ SubSeq(s, i, i + Len(lit) - 1) = lit

\* a faulty variant, for comparison: \s* where the pattern has \s+
RESUMED_RE_star(tag) ==
    LET b == SpanSpace(tag, 5)
        c == SpanWord(tag, b)
        d == SpanSpace(tag, c)
    IN  IF Literal(tag, 1, "<...") /\ c > b /\ Literal(tag, d, "resumed>")
        THEN [ok |-> TRUE, g1 |-> SubSeq(tag, b, c - 1)]
        ELSE [ok |-> FALSE, g1 |-> ""]

\* _RESUMED_RE.match(tag): ok is "m is not None", g1 is m.group(1)
RESUMED_RE(tag) ==
    LET b == SpanSpace(tag, 5)
        c == SpanWord(tag, b)
        d == SpanSpace(tag, c)
    IN  IF /\ Literal(tag, 1, "<...")
           /\ b > 5
           /\ c > b
           /\ d > c
           /\ Literal(tag, d, "resumed>")
        THEN [ok |-> TRUE, g1 |-> SubSeq(tag, b, c - 1)]
        ELSE [ok |-> FALSE, g1 |-> ""]

(***************************************************************************)
(* Resumed call.                                                           *)
(***************************************************************************)
\* a faulty variant, for comparison: the result is looked for at tail[0] also when args are there
resumed_line_first(ch) ==
    LET m == RESUMED_RE(ch[1].v)
        name == IF m.ok THEN Str(m.g1) ELSE None
        tail == IF Len(ch) > 1 THEN ch[2] ELSE List(<<>>)
        filled == IsList(tail) /\ Len(tail.v) > 0
        first == filled /\ IsList(tail.v[1])
    IN  Dict([type |-> Str("syscall"), status |-> Str("resumed"),
              name |-> name,
              args |-> IF first THEN tail.v[1] ELSE List(<<>>),
              result |-> IF filled THEN tail.v[1] ELSE None])

resumed_line(ch) ==
    LET tag == ch[1].v
        m == RESUMED_RE(tag)
        name == IF m.ok THEN Str(m.g1) ELSE None
        tail == IF Len(ch) > 1 THEN ch[2] ELSE List(<<>>)
        filled == IsList(tail) /\ Len(tail.v) > 0
        first == filled /\ IsList(tail.v[1])
        args == IF first THEN tail.v[1] ELSE List(<<>>)
        result == IF first
                  THEN (IF Len(tail.v) > 1 THEN tail.v[2] ELSE None)
                  ELSE (IF filled THEN tail.v[1] ELSE None)
    IN  Dict([type |-> Str("syscall"), status |-> Str("resumed"),
              name |-> name, args |-> args, result |-> result])

(***************************************************************************)
(* Signal and alert lines.                                                 *)
(***************************************************************************)
\* a faulty variant, for comparison: the info is taken from the wrong child
signal_line_swapped(ch) ==
    Dict([type |-> Str("signal"), name |-> Str(ch[1].v),
          status |-> Str("signal"), info |-> ch[1]])

signal_line(ch) ==
    LET sig == Str(ch[1].v)
        info == ch[2]
    IN  Dict([type |-> Str("signal"), name |-> sig,
              status |-> Str("signal"), info |-> info])

RECURSIVE Join(_, _)
\* sep.join(str(c) for c in xs)
Join(sep, xs) ==
    IF Len(xs) = 0 THEN ""
    ELSE IF Len(xs) = 1 THEN xs[1].v
    ELSE xs[1].v \o sep \o Join(sep, Tail(xs))

alert_body(ch) ==
    Dict([type |-> Str("alert"), status |-> Str("alert"),
          result |-> Str(Join(" ", ch))])

(***************************************************************************)
(* Struct and argument types.                                              *)
(***************************************************************************)
\* str(f) for the field values the model uses: str of a str is itself
PyStr(f) == f.v

\* f == "...": true of a str or Token with that text only
IsEllipsis(f) == f.kind = "str" /\ f.v = "..."

\* f is a dict and f.get("type") == "key_value"
IsKeyValue(f) == IsDict(f) /\ Get(f.v, "type") = Str("key_value")

RECURSIVE BracedLoop_first(_, _, _, _)
\* a faulty variant, for comparison: a key already in the map keeps its first value
BracedLoop_first(fields, i, result, truncated) ==
    IF i > Len(fields)
    THEN [fields |-> result, truncated |-> truncated]
    ELSE LET f == fields[i]
         IN  IF IsEllipsis(f)
             THEN BracedLoop_first(fields, i + 1, result, TRUE)
             ELSE IF IsKeyValue(f)
             THEN BracedLoop_first(fields, i + 1,
                      IF f.v.key.v \in DOMAIN result THEN result
                      ELSE Put(result, f.v.key.v, f.v.value), truncated)
             ELSE BracedLoop_first(fields, i + 1,
                      Put(result, PyStr(f), f), truncated)

RECURSIVE BracedLoop(_, _, _, _)
\* the for loop of braced from field i on, with the locals result, truncated
BracedLoop(fields, i, result, truncated) ==
    IF i > Len(fields)
    THEN [fields |-> result, truncated |-> truncated]
    ELSE LET f == fields[i]
         IN  IF IsEllipsis(f)
             THEN BracedLoop(fields, i + 1, result, TRUE)
             ELSE IF IsKeyValue(f)
             THEN BracedLoop(fields, i + 1,
                             Put(result, f.v.key.v, f.v.value), truncated)
             ELSE BracedLoop(fields, i + 1,
                             Put(result, PyStr(f), f), truncated)

braced(ch) ==
    LET fields == ch[1].v
        r == BracedLoop(fields, 1, <<>>, FALSE)
    IN  Dict([type |-> Str("struct"), fields |-> Dict(r.fields),
              truncated |-> r.truncated])

bracketed(ch) == Dict([type |-> Str("list"), items |-> ch[1]])

struct_fields(ch) == List(ch)

kv(ch) ==
    Dict([type |-> Str("key_value"), key |-> Str(ch[1].v), value |-> ch[2]])

function_like(ch) ==
    Dict([type |-> Str("function"), name |-> Str(ch[1].v), args |-> ch[2]])

(***************************************************************************)
(* Top level.                                                              *)
(***************************************************************************)
body(ch) == ch[1]

\* line: children are [pid, ts, body] or [ts, body]; a body that is not a
\* dict raises TypeError
line(ch) ==
    LET pid == IF Len(ch) = 3 THEN ch[1] ELSE None
        ts == IF Len(ch) = 3 THEN ch[2] ELSE ch[1]
        b == IF Len(ch) = 3 THEN ch[3] ELSE ch[2]
    IN  IF ~IsDict(b)
        THEN Raised("TypeError")
        ELSE LET stamped == Put(b.v, "timestamp", ts)
             IN  Dict(IF ~IsNone(pid) THEN Put(stamped, "pid", pid)
                      ELSE stamped)

\* a faulty variant, for comparison: the first converted line is lost
start_tail(ch) == IF Len(ch) = 0 THEN ch ELSE Tail(ch)

start(ch) == ch

(***************************************************************************)
(* _decode_c_string.  Text is a sequence of code points here.              *)
(* Code points: 34 double quote, 39 quote, 92 backslash, 10 newline,       *)
(* 48..55 octal digits, 120 x, 117 u, 85 U, 78 N.                          *)
(***************************************************************************)
\* s.encode("latin1") succeeds: every character is below 256
Latin1Ok(s) == \A i \in 1..Len(s) : s[i] < 256

IsOct(c) == 48 <= c /\ c <= 55

\* value of a hexadecimal digit, -1 for any other character
HexVal(c) ==
    IF 48 <= c /\ c <= 57 THEN c - 48
    ELSE IF 97 <= c /\ c <= 102 THEN c - 87
    ELSE IF 65 <= c /\ c <= 70 THEN c - 55
    ELSE -1

RECURSIVE HexNum(_, _, _)
\* value of the count hexadecimal digits of b that start at index i
HexNum(b, i, count) ==
    IF count = 0 THEN 0
    ELSE HexNum(b, i, count - 1) * 16 + HexVal(b[i + count - 1])

\* the one-character escapes \\ \' \" \b \f \t \n \r \v \a; -1 for others
SimpleEscape(c) ==
    CASE c = 92 -> 92
      [] c = 39 -> 39
      [] c = 34 -> 34
      [] c = 98 -> 8
      [] c = 102 -> 12
      [] c = 116 -> 9
      [] c = 110 -> 10
      [] c = 114 -> 13
      [] c = 118 -> 11
      [] c = 97 -> 7
      [] OTHER -> -1

DecodeError == [ok |-> FALSE, s |-> <<>>]

RECURSIVE UnicodeEscape(_, _, _)
\* bytes.decode("unicode_escape") from index i on, acc decoded so far; ok is
\* FALSE when the codec raises UnicodeDecodeError.  A \N{NAME} escape is
\* taken to fail: it succeeds only for a name of the Unicode database.
UnicodeEscape(b, i, acc) ==
    IF i > Len(b) THEN [ok |-> TRUE, s |-> acc]
    ELSE IF b[i] # 92 THEN UnicodeEscape(b, i + 1, Append(acc, b[i]))
    ELSE IF i = Len(b) THEN DecodeError
    ELSE LET c == b[i + 1]
             count == IF c = 120 THEN 2 ELSE IF c = 117 THEN 4 ELSE 8
             two == i + 2 <= Len(b) /\ IsOct(b[i + 2])
             three == two /\ i + 3 <= Len(b) /\ IsOct(b[i + 3])
         IN  IF c = 10 THEN UnicodeEscape(b, i + 2, acc)
             ELSE IF SimpleEscape(c) >= 0
             THEN UnicodeEscape(b, i + 2, Append(acc, SimpleEscape(c)))
             ELSE IF IsOct(c)
             THEN IF three
                  THEN UnicodeEscape(b, i + 4,
                           Append(acc, (c - 48) * 64 + (b[i + 2] - 48) * 8
                                       + (b[i + 3] - 48)))
                  ELSE IF two
                  THEN UnicodeEscape(b, i + 3,
                           Append(acc, (c - 48) * 8 + (b[i + 2] - 48)))
                  ELSE UnicodeEscape(b, i + 2, Append(acc, c - 48))
             ELSE IF c \in {120, 117, 85}
             THEN IF \/ i + 1 + count > Len(b)
                     \/ \E k \in 1..count : HexVal(b[i + 1 + k]) < 0
                  THEN DecodeError
                  ELSE IF HexNum(b, i + 2, count) > 1114111
                  THEN DecodeError
                  ELSE UnicodeEscape(b, i + 2 + count,
                           Append(acc, HexNum(b, i + 2, count)))
             ELSE IF c = 78 THEN DecodeError
             ELSE UnicodeEscape(b, i + 2, Append(Append(acc, 92), c))

\* a faulty variant, for comparison: the closing quote is not looked at
StripQuotes_leading(s) ==
    IF Len(s) >= 2 /\ s[1] = 34 THEN SubSeq(s, 2, Len(s) - 1) ELSE s

\* s[1:-1] when s starts and ends with a double quote and len(s) >= 2
StripQuotes(s) ==
    IF Len(s) >= 2 /\ s[1] = 34 /\ s[Len(s)] = 34
    THEN SubSeq(s, 2, Len(s) - 1)
    ELSE s

\* a faulty variant, for comparison: the fallback returns the stripped text
decode_c_string_stripped(original) ==
    LET s == StripQuotes(original)
    IN  IF ~Latin1Ok(s) THEN s
        ELSE IF UnicodeEscape(s, 1, <<>>).ok
        THEN UnicodeEscape(s, 1, <<>>).s
        ELSE s

\* _decode_c_string on a str (every caller passes str(...))
decode_c_string(original) ==
    LET s == StripQuotes(original)
    IN  IF ~Latin1Ok(s) THEN original
        ELSE IF UnicodeEscape(s, 1, <<>>).ok
        THEN UnicodeEscape(s, 1, <<>>).s
        ELSE original

(***************************************************************************)
(* Inputs: the converted children the grammar's rules hand to callbacks.   *)
(***************************************************************************)
ArgTexts == <<"3", "buf", "8", "NULL">>

\* the i-th converted argument of a call
ArgAt(i) == Str(ArgTexts[((i - 1) % 4) + 1])

\* what syscall_args returns for a call written with n arguments
ArgsOf(n) == syscall_args([i \in 1..n |-> ArgAt(i)])

ArgLists == {ArgsOf(n) : n \in 0..MaxArgs}

CallName == Str("read")
CallResult == Str("0")
\* the duration node: no callback converts it
Duration == Tree

SyscallChildren ==
    {<<CallName>>, <<CallName, CallResult>>,
     <<CallName, CallResult, Duration>>}
    \cup {<<CallName, a>> : a \in ArgLists}
    \cup {<<CallName, a, CallResult>> : a \in ArgLists}
    \cup {<<CallName, ArgsOf(MaxArgs), CallResult, Duration>>}

UnfinishedChildren == {<<CallName>>} \cup {<<CallName, a>> : a \in ArgLists}

ResumedTails ==
    {Tree, List(<<>>), List(<<CallResult>>), List(<<CallResult, Duration>>)}
    \cup {List(<<a>>) : a \in ArgLists}
    \cup {List(<<a, CallResult>>) : a \in ArgLists}
    \cup {List(<<ArgsOf(MaxArgs), CallResult, Duration>>)}

ResumedChildren ==
    {<<Str("<... read resumed>")>>, <<Str("<... resumed>"), List(<<CallResult>>)>>}
    \cup {<<Str("<... read resumed>"), t>> : t \in ResumedTails}

\* the converted fields of {si_pid=123, si_status=0}
SigInfoFields ==
    struct_fields(<<kv(<<Str("si_pid"), Str("123")>>),
                    kv(<<Str("si_status"), Str("0")>>)>>)

SignalChildren ==
    {<<Str("SIGCHLD"), braced(<<SigInfoFields>>)>>,
     <<Str("SIGSEGV"), Str("{si_signo=SIGSEGV}")>>}

AlertChildren == {<<Str("+++"), Str("exited"), Str("with"), Str("0"), Str("+++")>>}

\* a line node: the rule of its body's child, that child's converted
\* children, the converted timestamp, and the converted pid or None
Node(rule, ch, pid) == [rule |-> rule, ch |-> ch, ts |-> Num(1), pid |-> pid]

PidOpts == {None, Num(7)}

LineNodes ==
    {Node("syscall", ch, p) : ch \in SyscallChildren, p \in PidOpts}
    \cup {Node("unfinished_line", ch, None) : ch \in UnfinishedChildren}
    \cup {Node("resumed_line", ch, None) : ch \in ResumedChildren}
    \cup {Node("signal_line", ch, None) : ch \in SignalChildren}
    \cup {Node("alert_body", ch, None) : ch \in AlertChildren}
    \cup {Node("braced", <<SigInfoFields>>, None),
          Node("bracketed", <<ArgsOf(1)>>, None),
          Node("kv", <<Str("si_pid"), Str("123")>>, None),
          Node("function_like", <<Str("makedev"), ArgsOf(1)>>, None),
          Node("value", <<Str("0x1")>>, None)}

Trees == UNION {[1..n -> LineNodes] : n \in 0..MaxLines}

(***************************************************************************)
(* to_json: the transformer visits the line nodes in order; for each it    *)
(* runs the callback of the body's child, then body, then line, and at     *)
(* the end start on the collected lines.                                   *)
(***************************************************************************)
IdleMain ==
    /\ lines = <<>>
    /\ idx = 1
    /\ cur = None
    /\ children = <<>>
    /\ output = <<>>
    /\ pc = "idle"

IdleDec == ds = <<>> /\ d1 = <<>> /\ d2 = <<>> /\ dpc = "idle"

IdleTag ==
    /\ tparts = [p |-> "", w1 |-> "", n |-> "", w2 |-> "", s |-> ""]
    /\ rch = <<>>
    /\ rout = None
    /\ rpc = "idle"

IdleBraced == bnodes = <<>> /\ bout = None /\ bpc = "idle"

Init ==
    /\ lines \in Trees
    /\ idx = 1
    /\ cur = None
    /\ children = <<>>
    /\ output = <<>>
    /\ pc = IF Len(lines) = 0 THEN "start" ELSE "body"
    /\ IdleDec /\ IdleTag /\ IdleBraced

\* the body of line idx is converted by callback f
Visit(rule, converted) ==
    /\ pc = "body"
    /\ lines[idx].rule = rule
    /\ cur' = body(<<converted>>)
    /\ pc' = "line"
    /\ UNCHANGED <<lines, idx, children, output, decVars, tagVars, bracedVars>>

Syscall == Visit("syscall", syscall(lines[idx].ch))

UnfinishedLine ==
    Visit("unfinished_line",
          unfinished_line(<<unfinished_syscall(lines[idx].ch),
                            Str("<unfinished ...>")>>))

ResumedLine == Visit("resumed_line", resumed_line(lines[idx].ch))

SignalLine == Visit("signal_line", signal_line(lines[idx].ch))

AlertBody == Visit("alert_body", alert_body(lines[idx].ch))

BracedBody == Visit("braced", braced(lines[idx].ch))

BracketedBody == Visit("bracketed", bracketed(lines[idx].ch))

KvBody == Visit("kv", kv(lines[idx].ch))

FunctionLikeBody == Visit("function_like", function_like(lines[idx].ch))

ValueBody == Visit("value", lines[idx].ch[1])

\* the children lark hands to line for node nd whose body converted to b
LineChildren(nd, b) ==
    IF IsNone(nd.pid) THEN <<nd.ts, b>> ELSE <<nd.pid, nd.ts, b>>

Line ==
    /\ pc = "line"
    /\ LET r == line(LineChildren(lines[idx], cur))
       IN  IF r.kind = "raise"
           THEN /\ pc' = "raised"
                /\ UNCHANGED <<idx, children>>
           ELSE /\ children' = Append(children, r)
                /\ idx' = idx + 1
                /\ pc' = IF idx = Len(lines) THEN "start" ELSE "body"
    /\ UNCHANGED <<lines, cur, output, decVars, tagVars, bracedVars>>

Start ==
    /\ pc = "start"
    /\ output' = start(children)
    /\ pc' = "done"
    /\ UNCHANGED <<lines, idx, cur, children, decVars, tagVars, bracedVars>>

Next ==
    \/ Syscall
    \/ UnfinishedLine
    \/ ResumedLine
    \/ SignalLine
    \/ AlertBody
    \/ BracedBody
    \/ BracketedBody
    \/ KvBody
    \/ FunctionLikeBody
    \/ ValueBody
    \/ Line
    \/ Start

Spec == Init /\ [][Next]_vars

(***************************************************************************)
(* The decoder on bounded texts: it is applied to a raw text, and then to  *)
(* its own output.                                                         *)
(***************************************************************************)
\* double quote, backslash, n, x, 4, 1, and the euro sign (not latin1)
DecodeChars == {34, 92, 110, 120, 52, 49, 8364}

RawTexts == UNION {[1..n -> DecodeChars] : n \in 0..MaxStrLen}

InitDecode ==
    /\ ds \in RawTexts
    /\ d1 = <<>>
    /\ d2 = <<>>
    /\ dpc = "in"
    /\ IdleMain /\ IdleTag /\ IdleBraced

Decode ==
    /\ dpc = "in"
    /\ d1' = decode_c_string(ds)
    /\ dpc' = "once"
    /\ UNCHANGED <<ds, d2, mainVars, tagVars, bracedVars>>

DecodeAgain ==
    /\ dpc = "once"
    /\ d2' = decode_c_string(d1)
    /\ dpc' = "twice"
    /\ UNCHANGED <<ds, d1, mainVars, tagVars, bracedVars>>

NextDecode == Decode \/ DecodeAgain

SpecDecode == InitDecode /\ [][NextDecode]_vars

(***************************************************************************)
(* resumed_line on bounded tag texts.  A tag is written from five pieces:  *)
(* an opening, whitespace, a name, whitespace, a closing.                  *)
(***************************************************************************)
SpaceRuns == UNION {[1..n -> {" ", "\t"}] : n \in 0..MaxSpaces}

RECURSIVE Concat(_)
\* the text made of the one-character texts of cs
Concat(cs) == IF Len(cs) = 0 THEN "" ELSE Head(cs) \o Concat(Tail(cs))

TagOpenings == {"<...", "<..", "<.... "}
TagNames == {"", "read", "rt_sig4", "a-b", "resumed"}
TagClosings == {"resumed>", "resumed", "resumed>) = 0", ">"}

TagParts ==
    [p : TagOpenings, w1 : {Concat(r) : r \in SpaceRuns}, n : TagNames,
     w2 : {Concat(r) : r \in SpaceRuns}, s : TagClosings]

TagText(t) == t.p \o t.w1 \o t.n \o t.w2 \o t.s

InitTag ==
    /\ tparts \in TagParts
    /\ rch \in {<<Str(TagText(tparts))>>,
                <<Str(TagText(tparts)), List(<<ArgsOf(1), CallResult>>)>>}
    /\ rout = None
    /\ rpc = "in"
    /\ IdleMain /\ IdleDec /\ IdleBraced

ResumedTag ==
    /\ rpc = "in"
    /\ rout' = resumed_line(rch)
    /\ rpc' = "done"
    /\ UNCHANGED <<tparts, rch, mainVars, decVars, bracedVars>>

NextTag == ResumedTag

SpecTag == InitTag /\ [][NextTag]_vars

(***************************************************************************)
(* braced on bounded field lists.  A field node is the ellipsis token, a   *)
(* kv node with its converted children, or an already converted value.     *)
(***************************************************************************)
FieldNodes ==
    {[rule |-> "token", ch |-> <<Str("...")>>],
     [rule |-> "kv", ch |-> <<Str("a"), Str("1")>>],
     [rule |-> "kv", ch |-> <<Str("a"), Str("2")>>],
     [rule |-> "kv", ch |-> <<Str("b"), Str("1")>>],
     [rule |-> "value", ch |-> <<Str("a")>>],
     [rule |-> "value", ch |-> <<Str("0x1")>>]}

FieldLists == UNION {[1..n -> FieldNodes] : n \in 0..MaxFields}

\* the converted field: kv for a kv node, the child itself otherwise
Field(nd) == IF nd.rule = "kv" THEN kv(nd.ch) ELSE nd.ch[1]

InitBraced ==
    /\ bnodes \in FieldLists
    /\ bout = None
    /\ bpc = "in"
    /\ IdleMain /\ IdleDec /\ IdleTag

Braced ==
    /\ bpc = "in"
    /\ bout' = braced(<<struct_fields([i \in 1..Len(bnodes) |-> Field(bnodes[i])])>>)
    /\ bpc' = "done"
    /\ UNCHANGED <<bnodes, mainVars, decVars, tagVars>>

NextBraced == Braced

SpecBraced == InitBraced /\ [][NextBraced]_vars

(***************************************************************************)
(* Properties.                                                             *)
(***************************************************************************)
\* the line node being transformed, once its body has been converted
AtBody(rule) == pc = "line" /\ lines[idx].rule = rule

\* C1: every record made by syscall, unfinished_line or resumed_line has
\* result None if and only if its status is "unfinished".
C1_ResultNoneIffUnfinished ==
    \A rule \in {"syscall", "unfinished_line", "resumed_line"} :
        AtBody(rule) =>
            (IsNone(cur.v.result) <=> cur.v.status = Str("unfinished"))

\* C2: for a finished call with children (name, X, ...): when X is a list of
\* N arguments the record is finished, its args are those N elements in
\* source order and its result is the child after X; when X is not a list,
\* args is empty and the result is X.
C2_FinishedArgsResult ==
    (AtBody("syscall") /\ Len(lines[idx].ch) >= 2) =>
        LET ch == lines[idx].ch
            X == ch[2]
        IN  /\ cur.v.status = Str("finished")
            /\ cur.v.name = ch[1]
            /\ IsList(X) =>
                  /\ cur.v.args = X
                  /\ \E N \in 0..(MaxArgs + 1) :
                        /\ Len(cur.v.args.v) = N
                        /\ \A i \in 1..N : cur.v.args.v[i] = ArgAt(i)
                  /\ Len(ch) >= 3 => cur.v.result = ch[3]
            /\ ~IsList(X) =>
                  /\ cur.v.args = List(<<>>)
                  /\ cur.v.result = X

C2_Witness ==
    /\ AtBody("syscall")
    /\ Len(lines[idx].ch) = 3
    /\ cur.v.args = List(<<Str("3"), Str("buf")>>)
    /\ cur.v.result = CallResult

\* t, after "<...", has whitespace up to i, a name up to j, whitespace up to
\* k, and "resumed>" from k
ResumedForm(t, i, j, k) ==
    /\ 5 < i /\ i < j /\ j < k
    /\ \A x \in 5..(i - 1) : IsSpace(At(t, x))
    /\ \A x \in i..(j - 1) : IsWord(At(t, x))
    /\ \A x \in j..(k - 1) : IsSpace(At(t, x))
    /\ k + 7 <= Len(t)
    /\ SubSeq(t, k, k + 7) = "resumed>"

\* C3: resumed_line returns a record for every tag text; a tag that begins
\* "<... NAME resumed>" (whitespace runs of any length) gives name NAME, any
\* other tag gives name None, and only such a tag does.
C3_ResumedName ==
    rpc = "done" =>
        LET t == rch[1].v
            n == Len(t) + 1
            opened == Len(t) >= 4 /\ SubSeq(t, 1, 4) = "<..."
        IN  /\ IsDict(rout)
            /\ rout.v.status = Str("resumed")
            /\ \A i \in 6..n : \A j \in (i + 1)..n : \A k \in (j + 1)..n :
                   (opened /\ ResumedForm(t, i, j, k)) =>
                       rout.v.name = Str(SubSeq(t, i, j - 1))
            /\ (~opened \/ ~\E i \in 6..n : \E j \in (i + 1)..n :
                               \E k \in (j + 1)..n : ResumedForm(t, i, j, k))
                   => IsNone(rout.v.name)
            /\ t = "<... read resumed>" => rout.v.name = Str("read")
            /\ t = "<... resumed>" => IsNone(rout.v.name)
            /\ (/\ tparts.p = "<..." /\ tparts.w1 # "" /\ tparts.w2 # ""
                /\ tparts.n \in {"read", "rt_sig4", "resumed"}
                /\ tparts.s \in {"resumed>", "resumed>) = 0"})
                   => rout.v.name = Str(tparts.n)

C3_Witness ==
    /\ rpc = "done"
    /\ rch[1].v = "<... rt_sig4 \tresumed>"
    /\ rout.v.name = Str("rt_sig4")

\* the positions of the kv nodes with key k among the field nodes
KvAt(k) ==
    {i \in 1..Len(bnodes) : bnodes[i].rule = "kv" /\ bnodes[i].ch[1].v = k}

\* the positions of the fields that write key k: the kv nodes with key k and
\* the other values, apart from the ellipsis, whose text is k
WritesAt(k) ==
    KvAt(k) \cup {i \in 1..Len(bnodes) :
                      bnodes[i].rule = "value" /\ bnodes[i].ch[1].v = k}

\* the value the field node at position i stores
Written(i) == IF bnodes[i].rule = "kv" THEN bnodes[i].ch[2] ELSE bnodes[i].ch[1]

Last(S) == CHOOSE i \in S : \A j \in S : j <= i

HasEllipsis == \E i \in 1..Len(bnodes) : bnodes[i].rule = "token"

FieldKeys == {"a", "b", "0x1", "..."}

Wrapped(s) == Len(s) >= 2 /\ s[1] = 34 /\ s[Len(s)] = 34

HasBackslash(s) == \E i \in 1..Len(s) : s[i] = 92

\* C5 as stated: decoding the decoded text changes nothing.
C5_Idempotent == dpc = "twice" => d2 = d1

\* C5 amended: decoding the decoded text changes nothing when the decoded
\* text has no backslash and is not wrapped in double quotes.
C5_IdempotentOnPlain ==
    (dpc = "twice" /\ ~HasBackslash(d1) /\ ~Wrapped(d1)) => d2 = d1

C5_Witness ==
    /\ dpc = "twice"
    /\ ds = <<34, 92, 110, 34>>
    /\ d1 = <<10>>
    /\ d2 = <<10>>

\* the ways the escape decoding of text s fails: a character that is not a
\* byte, a backslash at the end, or \x without two hexadecimal digits
\* (the only failing escapes the characters of RawTexts can spell)
RECURSIVE BadEscapeFrom(_, _)
BadEscapeFrom(s, i) ==
    IF i > Len(s) THEN FALSE
    ELSE IF s[i] # 92 THEN BadEscapeFrom(s, i + 1)
    ELSE IF i = Len(s) THEN TRUE
    ELSE IF s[i + 1] = 120
    THEN \/ i + 3 > Len(s)
         \/ HexVal(s[i + 2]) < 0
         \/ HexVal(s[i + 3]) < 0
         \/ BadEscapeFrom(s, i + 4)
    ELSE BadEscapeFrom(s, i + 2)

Unwrapped(s) == IF Wrapped(s) THEN SubSeq(s, 2, Len(s) - 1) ELSE s

DecodingFails(s) ==
    \/ \E i \in 1..Len(Unwrapped(s)) : Unwrapped(s)[i] >= 256
    \/ BadEscapeFrom(Unwrapped(s), 1)

\* C6: the decoder returns a text for every text, and when the escape
\* decoding fails it returns the text it was given, quotes included.
C6_TotalWithFallback ==
    dpc # "in" =>
        /\ d1 \in Seq(Nat)
        /\ DecodingFails(ds) => d1 = ds
        /\ (~DecodingFails(ds) /\ ~HasBackslash(Unwrapped(ds)))
              => d1 = Unwrapped(ds)

C6_Witness ==
    /\ dpc = "once"
    /\ ds = <<34, 92, 120, 34>>
    /\ d1 = ds

RecordTypes == {Str("syscall"), Str("signal"), Str("alert")}

\* C7: line raises for every body that is not a syscall, signal or alert
\* record, so no other value becomes a finalized line.
C7_OnlyRecordsFinalized ==
    \A i \in 1..Len(children) :
        /\ IsDict(children[i])
        /\ Get(children[i].v, "type") \in RecordTypes

\* what the callback of the body's child returns for line node nd
BodyOf(nd) ==
    CASE nd.rule = "syscall" -> syscall(nd.ch)
      [] nd.rule = "unfinished_line" ->
             unfinished_line(<<unfinished_syscall(nd.ch), Str("<unfinished ...>")>>)
      [] nd.rule = "resumed_line" -> resumed_line(nd.ch)
      [] nd.rule = "signal_line" -> signal_line(nd.ch)
      [] nd.rule = "alert_body" -> alert_body(nd.ch)
      [] nd.rule = "braced" -> braced(nd.ch)
      [] nd.rule = "bracketed" -> bracketed(nd.ch)
      [] nd.rule = "kv" -> kv(nd.ch)
      [] nd.rule = "function_like" -> function_like(nd.ch)
      [] OTHER -> nd.ch[1]

\* the conversion of line node nd on its own
Converted(nd) == line(LineChildren(nd, body(<<BodyOf(nd)>>)))

\* C8: when every line converts, the output has one record per line node and
\* the i-th record is the conversion of the i-th line node.
C8_OutputFollowsInput ==
    pc = "done" =>
        /\ Len(output) = Len(lines)
        /\ \A i \in 1..Len(lines) : output[i] = Converted(lines[i])

C8_Witness ==
    /\ pc = "done"
    /\ Len(lines) >= 2
    /\ lines[1].rule = "syscall"
    /\ lines[2].rule = "signal_line"
    /\ Len(output) = Len(lines)
    /\ output[1].v.type = Str("syscall")
    /\ output[2].v.type = Str("signal")

\* the struct of {si_pid=123, si_status=0}
SigInfo ==
    Dict([type |-> Str("struct"),
          fields |-> Dict([si_pid |-> Str("123"), si_status |-> Str("0")]),
          truncated |-> FALSE])

\* C9 as stated: the record of a signal line has type "signal", the signal
\* name under the key "signal" and the converted info under "info".
C9_SignalKey ==
    AtBody("signal_line") =>
        /\ cur.v.type = Str("signal")
        /\ "signal" \in DOMAIN cur.v
        /\ cur.v["signal"] = lines[idx].ch[1]
        /\ cur.v.info = lines[idx].ch[2]

\* C9 amended: the record has type "signal", the signal name under the key
\* "name", status "signal", the converted info under "info", and no other
\* key; SIGCHLD {si_pid=123, si_status=0} gives name SIGCHLD and that struct.
C9_SignalName ==
    AtBody("signal_line") =>
        /\ DOMAIN cur.v = {"type", "name", "status", "info"}
        /\ cur.v.type = Str("signal")
        /\ cur.v.status = Str("signal")
        /\ cur.v.name = lines[idx].ch[1]
        /\ cur.v.info = lines[idx].ch[2]
        /\ lines[idx].ch[1] = Str("SIGCHLD") =>
              cur = Dict([type |-> Str("signal"), name |-> Str("SIGCHLD"),
                          status |-> Str("signal"), info |-> SigInfo])

C9_Witness ==
    /\ AtBody("signal_line")
    /\ cur.v.name = Str("SIGCHLD")
    /\ cur.v.info = SigInfo

\* C10: for a resumed line with tail T: when T starts with a list, args is
\* that list and the result is the next element of T, None without one;
\* otherwise args is empty and the result is the first element of T, None
\* for an empty T; the status is "resumed" in every case.
C10_ResumedTail ==
    AtBody("resumed_line") =>
        /\ cur.v.status = Str("resumed")
        /\ (Len(lines[idx].ch) > 1 /\ IsList(lines[idx].ch[2])) =>
              LET T == lines[idx].ch[2].v
              IN  IF Len(T) > 0 /\ IsList(T[1])
                  THEN /\ cur.v.args = T[1]
                       /\ cur.v.result = IF Len(T) > 1 THEN T[2] ELSE None
                  ELSE /\ cur.v.args = List(<<>>)
                       /\ cur.v.result = IF Len(T) > 0 THEN T[1] ELSE None

C10_Witness ==
    /\ AtBody("resumed_line")
    /\ Len(lines[idx].ch) > 1
    /\ lines[idx].ch[2] = List(<<List(<<Str("3"), Str("buf")>>), CallResult>>)
    /\ cur.v.args = List(<<Str("3"), Str("buf")>>)
    /\ cur.v.result = CallResult

====
